---- MODULE Spec2Model ----
(***************************************************************************)
(* Model of the isolate sandbox library (terror/isolate).                  *)
(*                                                                         *)
(* The repository holds two iterations of the sandbox constructor:         *)
(*   - Sandbox::new          (src/src/sandbox.rs), taking Config and an    *)
(*                            Environment,                                 *)
(*   - Sandbox::with_system  (src/src/lib.rs), taking a SandboxConfig.     *)
(* Both are modelled, each as one action, over the same inputs.  The       *)
(* lifecycle operations (initialize, execute/run, cleanup) are the guards  *)
(* of the source followed by the behaviour the design document gives for   *)
(* the bodies the source leaves as todo!().                                *)
(*                                                                         *)
(* Specifications:                                                         *)
(*   Spec            construction and lifecycle over every System, Config  *)
(*                   and Environment input,                                *)
(*   SpecInitialize  the same operations over every filesystem,            *)
(*   SpecExecute     the same operations over every program and context,   *)
(*   SpecMount       the Mount constructors (src/src/mount.rs),            *)
(*   SpecContext     the mount plan of an ExecutionContext                 *)
(*                   (src/src/execution_context.rs),                       *)
(*   SpecStatus      Status displayed and parsed                           *)
(*                   (src/src/execution_result.rs),                        *)
(*   SpecPair        two sandboxes constructed from one Environment.       *)
(***************************************************************************)
EXTENDS Integers, Sequences, FiniteSets, TLC

VARIABLES
  system,       \* the System capability as the caller set it up
  config,       \* the Config handed to the constructor
  environment,  \* the Environment handed to the constructor
  process,      \* process-wide state the System calls change
  calls,        \* the System calls made so far, in order
  sandbox,      \* the Sandbox value the caller holds (if any)
  result,       \* what the last operation returned
  history,      \* what the caller has seen succeed so far (see NoHistory)
  fs,           \* the directories the sandbox works on (see Filesystems)
  mount_call,   \* the last call of a Mount constructor and what it returned
  context,      \* the ExecutionContext the caller is building (if any)
  declarations, \* the mounts the caller has declared (see NoDeclarations)
  status_io,    \* the last Status displayed and the last string parsed
  program,      \* what the program to execute does when left alone
  execution,    \* the ExecutionResult the last operation returned (if any)
  peer          \* a second Sandbox made from the same Environment (if any)

sandbox_vars == <<system, config, environment, process, calls, sandbox, result,
                  history, fs, program, execution, peer>>
values == <<mount_call, context, declarations, status_io>>
vars == <<system, config, environment, process, calls, sandbox, result, history,
          fs, mount_call, context, declarations, status_io, program, execution,
          peer>>

----------------------------------------------------------------------------
(* Bounds of the model *)

\* u32 is modelled with WordBits bits: arithmetic is taken modulo 2^WordBits.
WordBits == 16

\* Successful initialize (cleanup) calls in a row, with no successful
\* cleanup (initialize) between them, that the model follows.
MaxRepeats == 2

Modulus == 2 ^ WordBits
U32Max == Modulus - 1

----------------------------------------------------------------------------
(* Option<u32> *)

None == <<>>
Some(x) == <<x>>
is_some(o) == o # <<>>
unwrap_or(o, default) == IF o = <<>> THEN default ELSE o[1]

(* u32 arithmetic: `-` and `+` panic on overflow when the build has
   overflow checks (debug profile) and wrap otherwise (release profile). *)
overflowing_sub(a, b) == [overflow |-> a < b, value |-> (a - b) % Modulus]
overflowing_add(a, b) == [overflow |-> a + b > U32Max, value |-> (a + b) % Modulus]

(* u32::to_string: the decimal digits, most significant first. *)
RECURSIVE to_string(_)
to_string(n) == IF n < 10 THEN <<n>> ELSE Append(to_string(n \div 10), n % 10)

(* PathBuf::join with a relative component. *)
join(path, component) == Append(path, component)

----------------------------------------------------------------------------
(* Errors and results *)

Error(kind, message) == [kind |-> kind, message |-> message, cause |-> "", upper |-> 0]
NotRoot == Error("NotRoot", "operation requires root privileges")
NotInitialized == Error("NotInitialized", "sandbox has not been initialized")
AlreadyInitialized == Error("AlreadyInitialized", "sandbox has already been initialized")
NoError == Error("", "")

PermissionSetegid(errno) ==
  [kind |-> "Permission", message |-> "cannot switch to root group: {}",
   cause |-> errno, upper |-> 0]
PermissionRestricted == Error("Permission", "you must be root to initialize the sandbox")
PermissionAs == Error("Permission", "you must be root to use as_uid or as_gid")
ConfigAs == Error("Config", "as_uid and as_gid must be used either both or none")
ConfigRange(upper) ==
  [kind |-> "Config", message |-> "sandbox id out of range (allowed: 0-{})",
   cause |-> "", upper |-> upper]

Ok(op) == [op |-> op, tag |-> "Ok", err |-> NoError]
Err(op, e) == [op |-> op, tag |-> "Err", err |-> e]
Panic(op) == [op |-> op, tag |-> "Panic", err |-> NoError]

NoSandbox ==
  [present |-> FALSE, ctor |-> "", id |-> 0, uid |-> 0, gid |-> 0,
   original_uid |-> 0, original_gid |-> 0, directory |-> <<>>,
   initialized |-> FALSE]

----------------------------------------------------------------------------
(* Inputs the model draws from *)

\* The file-creation mask the constructors set: Mode::from_bits_truncate(0o022).
SandboxUmask == 18

\* The mask of the process before the constructor runs (0o000, 0o077).
InitialUmasks == {0, 63}

Uids == {0, 1000}
Gids == {0, 1000}
Errnos == {"", "EPERM", "EINVAL"}
AsUids == {None, Some(0), Some(2000)}
AsGids == {None, Some(0), Some(2001)}
SandboxIds == {None, Some(0), Some(5), Some(10), Some(U32Max)}
NumSandboxes == {0, 1, 10}
FirstUids == {10000, U32Max - 4}
FirstGids == {20000, U32Max}
SandboxRoot == <<"tmp", "isolate_test">>

Systems ==
  [euid : Uids, egid : Gids, uid : Uids, gid : Gids, setegid_errno : Errnos]
Configs == [sandbox_id : SandboxIds, as_uid : AsUids, as_gid : AsGids]
Environments ==
  [num_sandboxes : NumSandboxes, first_sandbox_uid : FirstUids,
   first_sandbox_gid : FirstGids, restrict_initialization : BOOLEAN,
   sandbox_root : {SandboxRoot}]

----------------------------------------------------------------------------
(* Credential resolution: the match on (as_uid, as_gid) *)

(* Variant: a lone override is accepted, the other id taken from the System. *)
credentials_lone_override(cfg, sys) ==
  IF is_some(cfg.as_uid) /\ is_some(cfg.as_gid) /\ sys.uid # 0
    THEN [ok |-> FALSE, err |-> PermissionAs, uid |-> 0, gid |-> 0]
  ELSE [ok |-> TRUE, err |-> NoError,
        uid |-> unwrap_or(cfg.as_uid, sys.uid), gid |-> unwrap_or(cfg.as_gid, sys.gid)]

(* Variant: the effective uid decides whether the overrides may be used. *)
credentials_by_euid(cfg, sys) ==
  IF is_some(cfg.as_uid) /\ is_some(cfg.as_gid) /\ sys.euid # 0
    THEN [ok |-> FALSE, err |-> PermissionAs, uid |-> 0, gid |-> 0]
  ELSE IF is_some(cfg.as_uid) /\ is_some(cfg.as_gid)
    THEN [ok |-> TRUE, err |-> NoError, uid |-> cfg.as_uid[1], gid |-> cfg.as_gid[1]]
  ELSE IF ~is_some(cfg.as_uid) /\ ~is_some(cfg.as_gid)
    THEN [ok |-> TRUE, err |-> NoError, uid |-> sys.uid, gid |-> sys.gid]
  ELSE [ok |-> FALSE, err |-> ConfigAs, uid |-> 0, gid |-> 0]

(* Variant: the overrides are returned with uid and gid exchanged. *)
credentials_swapped(cfg, sys) ==
  IF is_some(cfg.as_uid) /\ is_some(cfg.as_gid) /\ sys.uid # 0
    THEN [ok |-> FALSE, err |-> PermissionAs, uid |-> 0, gid |-> 0]
  ELSE IF is_some(cfg.as_uid) /\ is_some(cfg.as_gid)
    THEN [ok |-> TRUE, err |-> NoError, uid |-> cfg.as_gid[1], gid |-> cfg.as_uid[1]]
  ELSE IF ~is_some(cfg.as_uid) /\ ~is_some(cfg.as_gid)
    THEN [ok |-> TRUE, err |-> NoError, uid |-> sys.uid, gid |-> sys.gid]
  ELSE [ok |-> FALSE, err |-> ConfigAs, uid |-> 0, gid |-> 0]

credentials(cfg, sys) ==
  LET original_uid == sys.uid
      original_gid == sys.gid
  IN  IF is_some(cfg.as_uid) /\ is_some(cfg.as_gid) /\ original_uid # 0
        THEN [ok |-> FALSE, err |-> PermissionAs, uid |-> 0, gid |-> 0]
      ELSE IF is_some(cfg.as_uid) /\ is_some(cfg.as_gid)
        THEN [ok |-> TRUE, err |-> NoError, uid |-> cfg.as_uid[1], gid |-> cfg.as_gid[1]]
      ELSE IF ~is_some(cfg.as_uid) /\ ~is_some(cfg.as_gid)
        THEN [ok |-> TRUE, err |-> NoError, uid |-> original_uid, gid |-> original_gid]
      ELSE [ok |-> FALSE, err |-> ConfigAs, uid |-> 0, gid |-> 0]

CredentialCalls == <<"getuid", "getgid">>

(* Variant: the real uid is tested in place of the effective uid. *)
euid_is_root_real_uid(sys) == sys.uid = 0

(* system.geteuid().is_root() *)
euid_is_root(sys) == sys.euid = 0

(* Variant: the group switch is attempted whatever the effective gid is. *)
setegid_needed_always(sys) == TRUE

(* The effective-gid fix-up both constructors do after the euid check. *)
setegid_needed(sys) == sys.egid # 0
setegid_fails(sys) == setegid_needed(sys) /\ sys.setegid_errno # ""
GidCalls(sys) ==
  IF setegid_needed(sys) THEN <<"geteuid", "getegid", "setegid">>
  ELSE <<"geteuid", "getegid">>
switch_group(sys, proc) ==
  IF setegid_needed(sys) THEN [proc EXCEPT !.egid = 0] ELSE proc

(* Variant: the call made with the mask the process already has. *)
set_umask_unchanged(proc) ==
  [proc EXCEPT !.umask_calls = @ + 1]

(* system.umask(Mode::from_bits_truncate(0o022)) *)
set_umask(proc) ==
  [proc EXCEPT !.umask = SandboxUmask, !.umask_calls = @ + 1]

Outcome(res, sb, proc, cs) ==
  [result |-> res, sandbox |-> sb, process |-> proc, calls |-> cs]

----------------------------------------------------------------------------
(* Sandbox::new (sandbox.rs) *)

new_initialized == TRUE

id_in_range(id, env) == id < env.num_sandboxes

(* Variant: every sandbox given the first uid. *)
sandbox_uid_shared(env, id) == overflowing_add(env.first_sandbox_uid, 0)

sandbox_uid(env, id) == overflowing_add(env.first_sandbox_uid, id)
sandbox_gid(env, id) == overflowing_add(env.first_sandbox_gid, id)
sandbox_directory(env, id) == join(env.sandbox_root, to_string(id))

(* Variant: the check made whatever restrict_initialization says. *)
initialization_restricted_always(env, sys) == sys.uid # 0

(* The restricted-initialization check of Sandbox::new: the caller's real
   uid must be root when the environment restricts initialization. *)
initialization_restricted(env, sys) ==
  env.restrict_initialization /\ sys.uid # 0

new(cfg, env, sys, proc, overflow_checks) ==
  LET id == unwrap_or(cfg.sandbox_id, 0)
      upper == overflowing_sub(env.num_sandboxes, 1)
      cred == credentials(cfg, sys)
      gid == sandbox_gid(env, id)
      uid == sandbox_uid(env, id)
      switched == switch_group(sys, proc)
      masked == set_umask(switched)
  IN  IF ~euid_is_root(sys)
        THEN Outcome(Err("new", NotRoot), NoSandbox, proc, <<"geteuid">>)
      ELSE IF setegid_fails(sys)
        THEN Outcome(Err("new", PermissionSetegid(sys.setegid_errno)), NoSandbox,
                     proc, GidCalls(sys))
      ELSE IF ~id_in_range(id, env)
        THEN IF upper.overflow /\ overflow_checks
               THEN Outcome(Panic("new"), NoSandbox, switched, GidCalls(sys))
               ELSE Outcome(Err("new", ConfigRange(upper.value)), NoSandbox,
                            switched, GidCalls(sys))
      ELSE IF initialization_restricted(env, sys)
        THEN Outcome(Err("new", PermissionRestricted), NoSandbox, switched,
                     GidCalls(sys) \o <<"getuid">>)
      ELSE IF ~cred.ok
        THEN Outcome(Err("new", cred.err), NoSandbox, switched,
                     GidCalls(sys) \o <<"getuid">> \o CredentialCalls)
      ELSE IF (gid.overflow \/ uid.overflow) /\ overflow_checks
        THEN Outcome(Panic("new"), NoSandbox, masked,
                     GidCalls(sys) \o <<"getuid">> \o CredentialCalls \o <<"umask">>)
      ELSE Outcome(Ok("new"),
                   [present |-> TRUE, ctor |-> "new", id |-> id,
                    uid |-> uid.value, gid |-> gid.value,
                    original_uid |-> cred.uid, original_gid |-> cred.gid,
                    directory |-> sandbox_directory(env, id),
                    initialized |-> new_initialized],
                   masked,
                   GidCalls(sys) \o <<"getuid">> \o CredentialCalls \o <<"umask">>)

----------------------------------------------------------------------------
(* Sandbox::with_system (lib.rs) *)

(* Variant: the mask set right after the group switch, before the real ids
   are read. *)
with_system_umask_first(cfg, env, sys, proc, overflow_checks) ==
  LET box_id == unwrap_or(cfg.sandbox_id, 0)
      upper == overflowing_sub(env.num_sandboxes, 1)
      cred == credentials(cfg, sys)
      box_gid == sandbox_gid(env, box_id)
      box_uid == sandbox_uid(env, box_id)
      switched == switch_group(sys, proc)
      masked == set_umask(switched)
  IN  IF ~euid_is_root(sys)
        THEN Outcome(Err("with_system", NotRoot), NoSandbox, proc, <<"geteuid">>)
      ELSE IF setegid_fails(sys)
        THEN Outcome(Err("with_system", PermissionSetegid(sys.setegid_errno)),
                     NoSandbox, proc, GidCalls(sys))
      ELSE IF ~cred.ok
        THEN Outcome(Err("with_system", cred.err), NoSandbox, masked,
                     GidCalls(sys) \o <<"umask">> \o CredentialCalls)
      ELSE IF ~id_in_range(box_id, env)
        THEN IF upper.overflow /\ overflow_checks
               THEN Outcome(Panic("with_system"), NoSandbox, masked,
                            GidCalls(sys) \o <<"umask">> \o CredentialCalls)
               ELSE Outcome(Err("with_system", ConfigRange(upper.value)), NoSandbox,
                            masked, GidCalls(sys) \o <<"umask">> \o CredentialCalls)
      ELSE IF (box_gid.overflow \/ box_uid.overflow) /\ overflow_checks
        THEN Outcome(Panic("with_system"), NoSandbox, masked,
                     GidCalls(sys) \o <<"umask">> \o CredentialCalls)
      ELSE Outcome(Ok("with_system"),
                   [present |-> TRUE, ctor |-> "with_system", id |-> box_id,
                    uid |-> box_uid.value, gid |-> box_gid.value,
                    original_uid |-> cred.uid, original_gid |-> cred.gid,
                    directory |-> sandbox_directory(env, box_id),
                    initialized |-> FALSE],
                   masked,
                   GidCalls(sys) \o <<"umask">> \o CredentialCalls)

(* Sandbox::with_system *)
with_system(cfg, env, sys, proc, overflow_checks) ==
  LET box_id == unwrap_or(cfg.sandbox_id, 0)
      upper == overflowing_sub(env.num_sandboxes, 1)
      cred == credentials(cfg, sys)
      box_gid == sandbox_gid(env, box_id)
      box_uid == sandbox_uid(env, box_id)
      switched == switch_group(sys, proc)
      masked == set_umask(switched)
  IN  IF ~euid_is_root(sys)
        THEN Outcome(Err("with_system", NotRoot), NoSandbox, proc, <<"geteuid">>)
      ELSE IF setegid_fails(sys)
        THEN Outcome(Err("with_system", PermissionSetegid(sys.setegid_errno)),
                     NoSandbox, proc, GidCalls(sys))
      ELSE IF ~cred.ok
        THEN Outcome(Err("with_system", cred.err), NoSandbox, switched,
                     GidCalls(sys) \o CredentialCalls)
      ELSE IF ~id_in_range(box_id, env)
        THEN IF upper.overflow /\ overflow_checks
               THEN Outcome(Panic("with_system"), NoSandbox, masked,
                            GidCalls(sys) \o CredentialCalls \o <<"umask">>)
               ELSE Outcome(Err("with_system", ConfigRange(upper.value)), NoSandbox,
                            masked, GidCalls(sys) \o CredentialCalls \o <<"umask">>)
      ELSE IF (box_gid.overflow \/ box_uid.overflow) /\ overflow_checks
        THEN Outcome(Panic("with_system"), NoSandbox, masked,
                     GidCalls(sys) \o CredentialCalls \o <<"umask">>)
      ELSE Outcome(Ok("with_system"),
                   [present |-> TRUE, ctor |-> "with_system", id |-> box_id,
                    uid |-> box_uid.value, gid |-> box_gid.value,
                    original_uid |-> cred.uid, original_gid |-> cred.gid,
                    directory |-> sandbox_directory(env, box_id),
                    initialized |-> FALSE],
                   masked,
                   GidCalls(sys) \o CredentialCalls \o <<"umask">>)

----------------------------------------------------------------------------
(* The filesystem: the directories under and above the sandbox root.  A
   directory is a record of its presence, kind, permission bits, owner and
   the names it holds. *)

GroupWrite == 16   \* 0o020
OtherWrite == 2    \* 0o002
SandboxDirectoryMode == 448   \* 0o700
CreateMode == 511  \* 0o777, the mode mkdir asks for

has_bit(mode, bit) == (mode \div bit) % 2 = 1

(* mode & !mask, bit by bit. *)
RECURSIVE clear_bits(_, _)
clear_bits(mode, mask) ==
  IF mode = 0 THEN 0
  ELSE (IF mask % 2 = 1 THEN 0 ELSE mode % 2)
         + 2 * clear_bits(mode \div 2, mask \div 2)

NoDirectory ==
  [exists |-> FALSE, is_dir |-> FALSE, mode |-> 0, uid |-> 0, gid |-> 0,
   entries |-> {}]

Directory(mode, uid, gid, entries) ==
  [exists |-> TRUE, is_dir |-> TRUE, mode |-> mode, uid |-> uid, gid |-> gid,
   entries |-> entries]

(* fs::create_dir_all: an existing directory is left as it is, a missing
   one is made by the calling process under its umask. *)
create_dir_all(node, sys, proc) ==
  IF node.exists
    THEN node
    ELSE Directory(clear_bits(CreateMode, proc.umask), sys.euid, proc.egid, {})

set_permissions(node, mode) == [node EXCEPT !.mode = mode]

remove_dir_all(node) == NoDirectory

create_directory_with_mode(node, mode, sys, proc) ==
  set_permissions(create_dir_all(node, sys, proc), mode)

(* Variant: recreate that keeps what it finds. *)
recreate_directory_keeping(node, mode, sys, proc) ==
  create_directory_with_mode(node, mode, sys, proc)

recreate_directory_with_mode(node, mode, sys, proc) ==
  create_directory_with_mode(IF node.exists THEN remove_dir_all(node) ELSE node,
                             mode, sys, proc)

chown(node, uid, gid) == [node EXCEPT !.uid = uid, !.gid = gid]

(* The directories above the sandbox root, outermost first, as initialize
   may find them; the sandbox root; the per-sandbox directory with
   what an earlier run left in it; its box subdirectory. *)
AncestorNodes ==
  { Directory(493, 0, 0, {}),                               \* 0o755
    Directory(509, 0, 0, {}),                               \* 0o775
    Directory(495, 0, 0, {}),                               \* 0o757
    [Directory(420, 0, 0, {}) EXCEPT !.is_dir = FALSE] }    \* a file

NumAncestors == 2

RootNodes == { NoDirectory, Directory(493, 0, 0, {}) }

StaleDirectories ==
  { [directory |-> NoDirectory, box |-> NoDirectory],
    [directory |-> Directory(493, 0, 0, {"stale"}), box |-> NoDirectory],
    [directory |-> Directory(511, 1000, 1000, {"stale", "box"}),
     box |-> Directory(511, 1000, 1000, {"stale"})] }

Filesystems ==
  { [ancestors |-> a, root |-> r, directory |-> d.directory, box |-> d.box] :
      a \in [1..NumAncestors -> AncestorNodes], r \in RootNodes,
      d \in StaleDirectories }

----------------------------------------------------------------------------
(* Status and ExecutionResult (execution_result.rs).  A string is the
   sequence of its characters. *)

RuntimeError == "RuntimeError"
SignalError == "SignalError"
Timeout == "Timeout"
InternalError == "InternalError"

Statuses == {RuntimeError, SignalError, Timeout, InternalError}

(* impl Display for Status *)
Status_to_string(status) ==
  CASE status = RuntimeError -> <<"R", "E">>
    [] status = SignalError -> <<"S", "G">>
    [] status = Timeout -> <<"T", "O">>
    [] status = InternalError -> <<"X", "X">>

(* Variant: a parser that does not know TO. *)
Status_from_without_timeout(str) ==
  CASE str = <<"R", "E">> -> RuntimeError
    [] str = <<"S", "G">> -> SignalError
    [] str = <<"X", "X">> -> InternalError
    [] OTHER -> RuntimeError

(* impl From<&str> for Status *)
Status_from(str) ==
  CASE str = <<"R", "E">> -> RuntimeError
    [] str = <<"S", "G">> -> SignalError
    [] str = <<"T", "O">> -> Timeout
    [] str = <<"X", "X">> -> InternalError
    [] OTHER -> RuntimeError

(* The strings handed to the parser: every string of at most MaxCodeLen
   letters of the codes, and the one of the parser's own test. *)
MaxCodeLen == 2
CodeLetters == {"R", "E", "S", "G", "T", "O", "X"}
StatusStrings ==
  UNION { [1..n -> CodeLetters] : n \in 0..MaxCodeLen }
    \cup { <<"i", "n", "v", "a", "l", "i", "d">> }

NoStatusIo ==
  [status |-> "", code |-> <<>>, input |-> <<>>, parsed |-> ""]

(* ExecutionResult: the fields the classification of an execution sets. *)
NoExecution ==
  [present |-> FALSE, status |-> RuntimeError, exit_code |-> 0,
   termination_signal |-> 0, terminated_by_sandbox |-> FALSE]

----------------------------------------------------------------------------
(* Lifecycle operations.  Each is the guard of the source; what follows the
   guard is todo!() in the source and is taken from the design document. *)

PermissionAncestors ==
  Error("Permission", "must be writable only by root")

(* Variant: initialize without its guard. *)
initialize_rejects_never(sb) == FALSE

(* Sandbox::initialize: the AlreadyInitialized guard. *)
initialize_rejects(sb) == sb.initialized

(* Variant: the walk looks at the group-write bit only. *)
writable_only_by_owner_group_bit(node) ==
  node.is_dir /\ ~has_bit(node.mode, GroupWrite)

(* A directory writable only by its owner: group- and other-write clear. *)
writable_only_by_owner(node) ==
  /\ node.is_dir
  /\ ~has_bit(node.mode, GroupWrite)
  /\ ~has_bit(node.mode, OtherWrite)

ancestors_writable_only_by_root(files) ==
  \A i \in DOMAIN files.ancestors : writable_only_by_owner(files.ancestors[i])

(* Past the guard: the restricted-initialization check; the sandbox root
   ensured; the walk over its ancestors; the per-sandbox directory
   recreated, box made in it and handed to the resolved uid/gid; then the
   state change. *)
initialize_body(sb, env, sys, proc, files) ==
  LET rooted == [files EXCEPT !.root =
                   create_directory_with_mode(@, SandboxDirectoryMode, sys, proc)]
      recreated == recreate_directory_with_mode(rooted.directory,
                                                SandboxDirectoryMode, sys, proc)
      box_found == IF "box" \in recreated.entries THEN rooted.box ELSE NoDirectory
      box == chown(create_directory_with_mode(box_found, SandboxDirectoryMode,
                                              sys, proc),
                   sb.original_uid, sb.original_gid)
  IN  IF env.restrict_initialization /\ sys.uid # 0
        THEN [result |-> Err("initialize", PermissionRestricted), sandbox |-> sb,
              fs |-> files]
      ELSE IF ~ancestors_writable_only_by_root(rooted)
        THEN [result |-> Err("initialize", PermissionAncestors), sandbox |-> sb,
              fs |-> rooted]
      ELSE [result |-> Ok("initialize"),
            sandbox |-> [sb EXCEPT !.initialized = TRUE],
            fs |-> [rooted EXCEPT
                      !.directory = [recreated EXCEPT !.entries = @ \cup {"box"}],
                      !.box = box]]

initialize(sb, env, sys, proc, files) ==
  IF initialize_rejects(sb)
    THEN [result |-> Err("initialize", AlreadyInitialized), sandbox |-> sb,
          fs |-> files]
    ELSE initialize_body(sb, env, sys, proc, files)

(* Sandbox::execute / Sandbox::run: the NotInitialized guard. *)
execute_rejects(sb) == ~sb.initialized

(* What the parent that monitors the child sees of a program that, left
   alone, uses prog.cpu_ms of CPU time and prog.wall_ms of wall-clock time
   and then exits with prog.exit_code or dies on prog.signal.  An absent
   limit is no limit; the grace window is the extra time on the CPU
   clock. *)
wall_time_exceeded(ctx, prog) ==
  is_some(ctx.wall_time_limit_ms) /\ prog.wall_ms > ctx.wall_time_limit_ms[1]

cpu_time_exceeded(ctx, prog) ==
  is_some(ctx.time_limit_ms) /\ prog.cpu_ms > ctx.time_limit_ms[1]

(* Variant: no grace window. *)
grace_elapsed_at_once(ctx, prog) == cpu_time_exceeded(ctx, prog)

grace_elapsed(ctx, prog) ==
  /\ is_some(ctx.time_limit_ms)
  /\ prog.cpu_ms > ctx.time_limit_ms[1] + unwrap_or(ctx.extra_time_ms, 0)

forcibly_terminated(ctx, prog) ==
  \/ wall_time_exceeded(ctx, prog)
  \/ cpu_time_exceeded(ctx, prog) /\ grace_elapsed(ctx, prog)

(* The classification of the outcome.  The design document names no
   status for a program that exits with 0: the result keeps the status of
   ExecutionResult::default(). *)
classify(ctx, prog) ==
  IF forcibly_terminated(ctx, prog)
    THEN [present |-> TRUE, status |-> Timeout, exit_code |-> 0,
          termination_signal |-> 9, terminated_by_sandbox |-> TRUE]
  ELSE IF prog.signal # 0
    THEN [present |-> TRUE, status |-> SignalError, exit_code |-> 0,
          termination_signal |-> prog.signal, terminated_by_sandbox |-> FALSE]
  ELSE IF prog.exit_code # 0
    THEN [present |-> TRUE, status |-> RuntimeError, exit_code |-> prog.exit_code,
          termination_signal |-> 0, terminated_by_sandbox |-> FALSE]
  ELSE [NoExecution EXCEPT !.present = TRUE]

(* Variant: an execute that uses the sandbox up. *)
execute_body_once(sb, ctx, prog) ==
  [result |-> Ok("execute"), sandbox |-> [sb EXCEPT !.initialized = FALSE],
   execution |-> classify(ctx, prog)]

(* Past the guard: the program run under the limits of the context and
   its outcome classified; the Sandbox, borrowed as &self, is left as it
   was. *)
execute_body(sb, ctx, prog) ==
  [result |-> Ok("execute"), sandbox |-> sb, execution |-> classify(ctx, prog)]

execute(sb, ctx, prog) ==
  IF execute_rejects(sb)
    THEN [result |-> Err("execute", NotInitialized), sandbox |-> sb,
          execution |-> NoExecution]
    ELSE execute_body(sb, ctx, prog)

(* Variant: cleanup without its guard. *)
cleanup_rejects_never(sb) == FALSE

(* Sandbox::cleanup: the NotInitialized guard. *)
cleanup_rejects(sb) == ~sb.initialized

(* Past the guard: the per-sandbox directory tree removed, then the state
   change. *)
cleanup_body(sb, files) ==
  [result |-> Ok("cleanup"), sandbox |-> [sb EXCEPT !.initialized = FALSE],
   fs |-> [files EXCEPT !.directory = remove_dir_all(@),
                        !.box = remove_dir_all(@)]]

cleanup(sb, files) ==
  IF cleanup_rejects(sb)
    THEN [result |-> Err("cleanup", NotInitialized), sandbox |-> sb, fs |-> files]
    ELSE cleanup_body(sb, files)

----------------------------------------------------------------------------
(* Mount and MountOptions (mount.rs).  A path is the sequence of its
   components. *)

DefaultMountOptions ==
  [allow_devices |-> FALSE, filesystem |-> None, no_exec |-> FALSE,
   no_recursive |-> FALSE, optional |-> FALSE, read_write |-> FALSE,
   temporary |-> FALSE]

TemporaryWithOutsidePath ==
  Error("Mount", "temporary directory cannot have an outside path")

NoMount ==
  [inside_path |-> <<>>, outside_path |-> None, options |-> DefaultMountOptions]

ValueOk(v) == [tag |-> "Ok", err |-> NoError, value |-> v]
ValueErr(e, v) == [tag |-> "Err", err |-> e, value |-> v]

(* Variant: a temporary mount is refused only if it is also read-only. *)
temporary_has_outside_path_read_only(outside_path, options) ==
  options.temporary /\ is_some(outside_path) /\ ~options.read_write

(* The validation of Mount::new. *)
temporary_has_outside_path(outside_path, options) ==
  options.temporary /\ is_some(outside_path)

(* Variant: read_write stored as the caller gave it. *)
read_write_as_supplied(options) == options.read_write

(* The normalisation of Mount::new: temporary implies read_write. *)
normalized_read_write(options) ==
  IF options.temporary THEN TRUE ELSE options.read_write

Mount_new(inside_path, outside_path, options) ==
  IF temporary_has_outside_path(outside_path, options)
    THEN ValueErr(TemporaryWithOutsidePath, NoMount)
    ELSE ValueOk([inside_path |-> inside_path,
                  outside_path |-> outside_path,
                  options |-> [options EXCEPT
                                 !.read_write = normalized_read_write(options)]])

device_options == [DefaultMountOptions EXCEPT !.allow_devices = TRUE]
filesystem_options(fs_type) ==
  [DefaultMountOptions EXCEPT !.filesystem = Some(fs_type)]
optional_options == [DefaultMountOptions EXCEPT !.optional = TRUE]
read_only_options == DefaultMountOptions
read_write_options == [DefaultMountOptions EXCEPT !.read_write = TRUE]
temporary_options ==
  [DefaultMountOptions EXCEPT !.temporary = TRUE, !.read_write = TRUE]

Mount_device(inside_path, outside_path) ==
  Mount_new(inside_path, outside_path, device_options)
Mount_filesystem(inside_path, fs_type) ==
  Mount_new(inside_path, None, filesystem_options(fs_type))
Mount_optional(inside_path, outside_path) ==
  Mount_new(inside_path, outside_path, optional_options)
Mount_read_only(inside_path, outside_path) ==
  Mount_new(inside_path, outside_path, read_only_options)
Mount_read_write(inside_path, outside_path) ==
  Mount_new(inside_path, outside_path, read_write_options)
Mount_temporary(inside_path) ==
  Mount_new(inside_path, None, temporary_options)

(* Inputs of the Mount constructors. *)
InsidePaths == { <<"a">>, <<"a", "b">>, <<"tmp">> }
OutsidePaths == { None, Some(<<"srv", "data">>) }
FilesystemTypes == { "proc", "sysfs" }
AllMountOptions ==
  [allow_devices : BOOLEAN, filesystem : {None, Some("proc")},
   no_exec : BOOLEAN, no_recursive : BOOLEAN, optional : BOOLEAN,
   read_write : BOOLEAN, temporary : BOOLEAN]

NoMountCall ==
  [ctor |-> "", inside_path |-> <<>>, outside_path |-> None,
   options |-> DefaultMountOptions, result |-> ValueErr(NoError, NoMount)]

MountCall(ctor, inside_path, outside_path, options, res) ==
  [ctor |-> ctor, inside_path |-> inside_path, outside_path |-> outside_path,
   options |-> options, result |-> res]

----------------------------------------------------------------------------
(* ExecutionContext (execution_context.rs): its mount plan. *)

(* vec![a?, b?, ..]: the first Err among the elements is returned. *)
RECURSIVE try_collect(_)
try_collect(results) ==
  IF results = <<>> THEN ValueOk(<<>>)
  ELSE IF Head(results).tag = "Err" THEN ValueErr(Head(results).err, <<>>)
  ELSE LET rest == try_collect(Tail(results))
       IN  IF rest.tag = "Err" THEN rest
           ELSE ValueOk(<<Head(results).value>> \o rest.value)

(* Variant: the default set without its temporary directory. *)
default_mounts_without_tmp ==
  try_collect(<< Mount_read_write(<<"box">>, Some(<<".", "box">>)),
                 Mount_read_only(<<"bin">>, None),
                 Mount_device(<<"dev">>, None),
                 Mount_read_only(<<"lib">>, None),
                 Mount_optional(<<"lib64">>, None),
                 Mount_filesystem(<<"proc">>, "proc"),
                 Mount_read_only(<<"usr">>, None) >>)

default_mounts ==
  try_collect(<< Mount_read_write(<<"box">>, Some(<<".", "box">>)),
                 Mount_read_only(<<"bin">>, None),
                 Mount_device(<<"dev">>, None),
                 Mount_read_only(<<"lib">>, None),
                 Mount_optional(<<"lib64">>, None),
                 Mount_filesystem(<<"proc">>, "proc"),
                 Mount_temporary(<<"tmp">>),
                 Mount_read_only(<<"usr">>, None) >>)

NoContext ==
  [present |-> FALSE, panicked |-> FALSE, mounts |-> <<>>, stderr |-> None,
   stderr_to_stdout |-> FALSE, extra_time_ms |-> None, time_limit_ms |-> None,
   wall_time_limit_ms |-> None]

(* ExecutionContext::default / ExecutionContext::new: default_mounts is
   unwrapped, so a failure to build it is a panic. *)
ExecutionContext_default ==
  IF default_mounts.tag = "Ok"
    THEN [present |-> TRUE, panicked |-> FALSE, mounts |-> default_mounts.value,
          stderr |-> None, stderr_to_stdout |-> FALSE,
          extra_time_ms |-> Some(500), time_limit_ms |-> Some(1000),
          wall_time_limit_ms |-> Some(5000)]
    ELSE [NoContext EXCEPT !.panicked = TRUE]

ExecutionContext_new == ExecutionContext_default

(* Variant: the mount put in front of the plan. *)
ExecutionContext_mount_first(ctx, m) == [ctx EXCEPT !.mounts = <<m>> \o @]

(* ExecutionContext::mount *)
ExecutionContext_mount(ctx, m) == [ctx EXCEPT !.mounts = @ \o <<m>>]

(* ExecutionContext::mounts *)
ExecutionContext_mounts(ctx, list) == [ctx EXCEPT !.mounts = list]

(* ExecutionContext::stderr *)
ExecutionContext_stderr(ctx, stderr) == [ctx EXCEPT !.stderr = stderr]

(* ExecutionContext::stderr_to_stdout *)
ExecutionContext_stderr_to_stdout(ctx, stderr_to_stdout) ==
  [ctx EXCEPT !.stderr_to_stdout = stderr_to_stdout]

(* The paths a caller redirects standard error to. *)
StderrPaths == { None, Some(<<"err", "txt">>) }

(* The mounts a caller declares. *)
Declarations ==
  { Mount_read_only(<<"a">>, Some(<<"srv", "data">>)).value,
    Mount_read_only(<<"a", "b">>, Some(<<"srv", "data">>)).value,
    Mount_read_write(<<"a">>, Some(<<"srv", "data">>)).value,
    Mount_temporary(<<"tmp">>).value }

MaxDeclarations == 3
MaxListLen == 2

DeclarationLists ==
  UNION { [1..n -> Declarations] : n \in 0..MaxListLen }

(* What the caller has asked for since it made the context: the plan it
   started from (the defaults, or the list it gave to mounts) and the
   mounts it declared one by one since, in order. *)
NoDeclarations == [base |-> <<>>, declared |-> <<>>]

(* A program that runs for a short while and exits with code 7. *)
PlainProgram == [cpu_ms |-> 100, wall_ms |-> 200, exit_code |-> 7, signal |-> 0]

(* Programs: short ones, one that sleeps, one over the CPU limit of the
   default context but within its grace window, ones past it; each exits
   with 0 or 7 or dies of a segmentation fault (signal 11). *)
Programs ==
  { [cpu_ms |-> t[1], wall_ms |-> t[2], exit_code |-> e[1], signal |-> e[2]] :
      t \in { <<100, 200>>, <<100, 6000>>, <<1200, 1300>>, <<1600, 1700>>,
              <<1600, 6000>> },
      e \in { <<0, 0>>, <<7, 0>>, <<0, 11>> } }

(* Contexts: the default one with its time limits kept, changed or taken
   away. *)
ExecutionContexts ==
  { ExecutionContext_stderr_to_stdout(
      ExecutionContext_stderr(
        [ExecutionContext_new EXCEPT !.time_limit_ms = t,
                                     !.wall_time_limit_ms = w,
                                     !.extra_time_ms = e],
        p),
      b) :
      t \in {None, Some(1000)}, w \in {None, Some(5000)},
      e \in {None, Some(0), Some(500)}, p \in StderrPaths, b \in BOOLEAN }

----------------------------------------------------------------------------------------------------------------------------------------------
(* The state machine *)

(* History of the caller's successful calls on its sandbox:
     inits     successful initialize calls since the construction or the
               last successful cleanup,
     cleanups  successful cleanup calls since the construction or the last
               successful initialize,
     ever_initialized  whether any initialize call has succeeded,
     replaced  whether the last successful initialize found a per-sandbox
               directory in its place. *)
NoHistory ==
  [inits |-> 0, cleanups |-> 0, ever_initialized |-> FALSE, replaced |-> FALSE]

(* The filesystem the specifications that do not vary it start from: the
   ancestors pass the walk, the sandbox root is there, and an earlier run
   has left a per-sandbox directory. *)
PlainFilesystems ==
  { f \in Filesystems :
      /\ f.root.exists
      /\ f.directory.exists /\ ~f.box.exists
      /\ \A i \in DOMAIN f.ancestors : f.ancestors[i].mode = 493 }

(* An ExecutionContext made, ready for Sandbox::execute. *)
ReadyContext(ctx) ==
  /\ mount_call = NoMountCall
  /\ context = ctx
  /\ declarations = [base |-> ctx.mounts, declared |-> <<>>]
  /\ status_io = NoStatusIo

(* No Mount built, no ExecutionContext made and no Status shown yet. *)
NoValues ==
  /\ mount_call = NoMountCall
  /\ context = NoContext
  /\ declarations = NoDeclarations
  /\ status_io = NoStatusIo

Init ==
  /\ system \in Systems
  /\ config \in Configs
  /\ environment \in Environments
  /\ \E mask \in InitialUmasks :
       process = [egid |-> system.egid, umask |-> mask, umask_calls |-> 0]
  /\ calls = <<>>
  /\ sandbox = NoSandbox
  /\ peer = NoSandbox
  /\ result = [op |-> "", tag |-> "", err |-> NoError]
  /\ history = NoHistory
  /\ fs \in PlainFilesystems
  /\ program = PlainProgram
  /\ execution = NoExecution
  /\ ReadyContext(ExecutionContext_new)

Construct(outcome) ==
  /\ result' = outcome.result
  /\ sandbox' = outcome.sandbox
  /\ process' = outcome.process
  /\ calls' = outcome.calls
  /\ UNCHANGED <<system, config, environment, history, fs, program, execution,
                 peer>>
  /\ UNCHANGED values

New ==
  /\ result.op = ""
  /\ \E overflow_checks \in BOOLEAN :
       Construct(new(config, environment, system, process, overflow_checks))

WithSystem ==
  /\ result.op = ""
  /\ \E overflow_checks \in BOOLEAN :
       Construct(with_system(config, environment, system, process, overflow_checks))

Initialize ==
  /\ sandbox.present
  /\ history.inits < MaxRepeats
  /\ LET r == initialize(sandbox, environment, system, process, fs)
     IN  /\ sandbox' = r.sandbox
         /\ result' = r.result
         /\ fs' = r.fs
         /\ history' = IF r.result.tag = "Ok"
                         THEN [inits |-> history.inits + 1, cleanups |-> 0,
                               ever_initialized |-> TRUE,
                               replaced |-> fs.directory.exists]
                         ELSE history
  /\ execution' = NoExecution
  /\ UNCHANGED <<system, config, environment, process, calls, program, peer>>
  /\ UNCHANGED values

Execute ==
  /\ sandbox.present
  /\ context.present
  /\ LET r == execute(sandbox, context, program)
     IN  /\ sandbox' = r.sandbox
         /\ result' = r.result
         /\ execution' = r.execution
  /\ UNCHANGED <<system, config, environment, process, calls, history, fs,
                 program, peer>>
  /\ UNCHANGED values

Cleanup ==
  /\ sandbox.present
  /\ history.cleanups < MaxRepeats
  /\ LET r == cleanup(sandbox, fs)
     IN  /\ sandbox' = r.sandbox
         /\ result' = r.result
         /\ fs' = r.fs
         /\ history' = IF r.result.tag = "Ok"
                         THEN [history EXCEPT !.inits = 0, !.cleanups = @ + 1]
                         ELSE history
  /\ execution' = NoExecution
  /\ UNCHANGED <<system, config, environment, process, calls, program, peer>>
  /\ UNCHANGED values

Next == New \/ WithSystem \/ Initialize \/ Execute \/ Cleanup

Spec == Init /\ [][Next]_vars

(* The sandbox running every program of Programs under every context of
   ExecutionContexts, for a root caller with the default configuration. *)
InitExecute ==
  /\ system = [uid |-> 0, gid |-> 0, euid |-> 0, egid |-> 0, setegid_errno |-> ""]
  /\ config = [sandbox_id |-> None, as_uid |-> None, as_gid |-> None]
  /\ environment = [num_sandboxes |-> 10, first_sandbox_uid |-> 10000,
                    first_sandbox_gid |-> 20000, restrict_initialization |-> FALSE,
                    sandbox_root |-> SandboxRoot]
  /\ process = [egid |-> 0, umask |-> 0, umask_calls |-> 0]
  /\ calls = <<>>
  /\ sandbox = NoSandbox
  /\ peer = NoSandbox
  /\ result = [op |-> "", tag |-> "", err |-> NoError]
  /\ history = NoHistory
  /\ fs \in PlainFilesystems
  /\ program \in Programs
  /\ execution = NoExecution
  /\ \E ctx \in ExecutionContexts : ReadyContext(ctx)

SpecExecute == InitExecute /\ [][Next]_vars

(* The Mount constructors, each called on every input of the sets above,
   with no sandbox at hand. *)
NoSandboxCall ==
  /\ program = PlainProgram
  /\ execution = NoExecution
  /\ system = [uid |-> 0, gid |-> 0, euid |-> 0, egid |-> 0, setegid_errno |-> ""]
  /\ config = [sandbox_id |-> None, as_uid |-> None, as_gid |-> None]
  /\ environment = [num_sandboxes |-> 1, first_sandbox_uid |-> 10000,
                    first_sandbox_gid |-> 20000, restrict_initialization |-> FALSE,
                    sandbox_root |-> SandboxRoot]
  /\ process = [egid |-> 0, umask |-> 0, umask_calls |-> 0]
  /\ calls = <<>>
  /\ sandbox = NoSandbox
  /\ peer = NoSandbox
  /\ result = [op |-> "", tag |-> "", err |-> NoError]
  /\ history = NoHistory
  /\ fs \in PlainFilesystems

MountNew ==
  /\ \E inside_path \in InsidePaths, outside_path \in OutsidePaths,
        options \in AllMountOptions :
       mount_call' = MountCall("new", inside_path, outside_path, options,
                               Mount_new(inside_path, outside_path, options))
  /\ UNCHANGED <<sandbox_vars, context, declarations, status_io>>

MountDevice ==
  /\ \E inside_path \in InsidePaths, outside_path \in OutsidePaths :
       mount_call' = MountCall("device", inside_path, outside_path, device_options,
                               Mount_device(inside_path, outside_path))
  /\ UNCHANGED <<sandbox_vars, context, declarations, status_io>>

MountFilesystem ==
  /\ \E inside_path \in InsidePaths, fs_type \in FilesystemTypes :
       mount_call' = MountCall("filesystem", inside_path, None,
                               filesystem_options(fs_type),
                               Mount_filesystem(inside_path, fs_type))
  /\ UNCHANGED <<sandbox_vars, context, declarations, status_io>>

MountOptional ==
  /\ \E inside_path \in InsidePaths, outside_path \in OutsidePaths :
       mount_call' = MountCall("optional", inside_path, outside_path,
                               optional_options,
                               Mount_optional(inside_path, outside_path))
  /\ UNCHANGED <<sandbox_vars, context, declarations, status_io>>

MountReadOnly ==
  /\ \E inside_path \in InsidePaths, outside_path \in OutsidePaths :
       mount_call' = MountCall("read_only", inside_path, outside_path,
                               read_only_options,
                               Mount_read_only(inside_path, outside_path))
  /\ UNCHANGED <<sandbox_vars, context, declarations, status_io>>

MountReadWrite ==
  /\ \E inside_path \in InsidePaths, outside_path \in OutsidePaths :
       mount_call' = MountCall("read_write", inside_path, outside_path,
                               read_write_options,
                               Mount_read_write(inside_path, outside_path))
  /\ UNCHANGED <<sandbox_vars, context, declarations, status_io>>

MountTemporary ==
  /\ \E inside_path \in InsidePaths :
       mount_call' = MountCall("temporary", inside_path, None, temporary_options,
                               Mount_temporary(inside_path))
  /\ UNCHANGED <<sandbox_vars, context, declarations, status_io>>

InitMount == NoSandboxCall /\ NoValues

NextMount ==
  \/ MountNew \/ MountDevice \/ MountFilesystem \/ MountOptional
  \/ MountReadOnly \/ MountReadWrite \/ MountTemporary

SpecMount == InitMount /\ [][NextMount]_vars

(* Status values displayed and strings parsed, with no sandbox at hand. *)
StatusDisplay ==
  /\ \E status \in Statuses :
       status_io' = [status_io EXCEPT !.status = status,
                                      !.code = Status_to_string(status)]
  /\ UNCHANGED <<sandbox_vars, mount_call, context, declarations>>

StatusFrom ==
  /\ \E str \in StatusStrings :
       status_io' = [status_io EXCEPT !.input = str, !.parsed = Status_from(str)]
  /\ UNCHANGED <<sandbox_vars, mount_call, context, declarations>>

(* Status::from(status.to_string().as_str()) *)
StatusRoundTrip ==
  /\ status_io.status # ""
  /\ status_io' = [status_io EXCEPT !.input = status_io.code,
                                    !.parsed = Status_from(status_io.code)]
  /\ UNCHANGED <<sandbox_vars, mount_call, context, declarations>>

InitStatus == NoSandboxCall /\ NoValues

NextStatus == StatusDisplay \/ StatusFrom \/ StatusRoundTrip

SpecStatus == InitStatus /\ [][NextStatus]_vars

(* An ExecutionContext made and given mounts, with no sandbox at hand. *)
ContextNew ==
  /\ ~context.present /\ ~context.panicked
  /\ context' = ExecutionContext_new
  /\ declarations' = [base |-> ExecutionContext_new.mounts, declared |-> <<>>]
  /\ UNCHANGED <<sandbox_vars, mount_call, status_io>>

ContextMount ==
  /\ context.present
  /\ Len(declarations.declared) < MaxDeclarations
  /\ \E m \in Declarations :
       /\ context' = ExecutionContext_mount(context, m)
       /\ declarations' = [declarations EXCEPT !.declared = Append(@, m)]
  /\ UNCHANGED <<sandbox_vars, mount_call, status_io>>

ContextMounts ==
  /\ context.present
  /\ \E list \in DeclarationLists :
       /\ context' = ExecutionContext_mounts(context, list)
       /\ declarations' = [base |-> list, declared |-> <<>>]
  /\ UNCHANGED <<sandbox_vars, mount_call, status_io>>

ContextStderr ==
  /\ context.present
  /\ \E stderr \in StderrPaths :
       context' = ExecutionContext_stderr(context, stderr)
  /\ UNCHANGED <<sandbox_vars, mount_call, status_io, declarations>>

ContextStderrToStdout ==
  /\ context.present
  /\ \E stderr_to_stdout \in BOOLEAN :
       context' = ExecutionContext_stderr_to_stdout(context, stderr_to_stdout)
  /\ UNCHANGED <<sandbox_vars, mount_call, status_io, declarations>>

InitContext == NoSandboxCall /\ NoValues

NextContext ==
  \/ ContextNew \/ ContextMount \/ ContextMounts
  \/ ContextStderr \/ ContextStderrToStdout

SpecContext == InitContext /\ [][NextContext]_vars

(* The sandbox over every filesystem of Filesystems, for callers that pass
   the constructor's checks of the effective ids. *)
InitializeSystems ==
  { s \in Systems :
      s.euid = 0 /\ s.egid = 0 /\ s.gid = s.uid /\ s.setegid_errno = "" }

InitializeConfigs ==
  { c \in Configs :
      /\ c.sandbox_id \in {None, Some(5)}
      /\ is_some(c.as_uid) = is_some(c.as_gid) }

InitializeEnvironments ==
  { e \in Environments :
      /\ e.num_sandboxes = 10
      /\ e.first_sandbox_uid = 10000 /\ e.first_sandbox_gid = 20000 }

InitInitialize ==
  /\ system \in InitializeSystems
  /\ config \in InitializeConfigs
  /\ environment \in InitializeEnvironments
  /\ process = [egid |-> system.egid, umask |-> 0, umask_calls |-> 0]
  /\ calls = <<>>
  /\ sandbox = NoSandbox
  /\ peer = NoSandbox
  /\ result = [op |-> "", tag |-> "", err |-> NoError]
  /\ history = NoHistory
  /\ fs \in Filesystems
  /\ program = PlainProgram
  /\ execution = NoExecution
  /\ ReadyContext(ExecutionContext_new)

SpecInitialize == InitInitialize /\ [][Next]_vars

(* Two sandboxes made by one root caller from the same Environment, each
   from a Config of its own. *)
MaxPairId == 10

PairConfigs ==
  [sandbox_id : {None} \cup { Some(i) : i \in 0..MaxPairId },
   as_uid : {None}, as_gid : {None}]

InitPair ==
  /\ system = [uid |-> 0, gid |-> 0, euid |-> 0, egid |-> 0, setegid_errno |-> ""]
  /\ config \in PairConfigs
  /\ environment \in Environments
  /\ process = [egid |-> 0, umask |-> 0, umask_calls |-> 0]
  /\ calls = <<>>
  /\ sandbox = NoSandbox
  /\ peer = NoSandbox
  /\ result = [op |-> "", tag |-> "", err |-> NoError]
  /\ history = NoHistory
  /\ fs \in PlainFilesystems
  /\ program = PlainProgram
  /\ execution = NoExecution
  /\ ReadyContext(ExecutionContext_new)

ConstructPeer ==
  /\ sandbox.present
  /\ ~peer.present
  /\ process.umask_calls < MaxRepeats
  /\ \E cfg \in PairConfigs, overflow_checks \in BOOLEAN :
       \E outcome \in { new(cfg, environment, system, process, overflow_checks),
                        with_system(cfg, environment, system, process,
                                    overflow_checks) } :
         /\ peer' = outcome.sandbox
         /\ process' = outcome.process
  /\ UNCHANGED <<system, config, environment, calls, sandbox, result, history,
                 fs, program, execution>>
  /\ UNCHANGED values

NextPair == New \/ WithSystem \/ ConstructPeer

SpecPair == InitPair /\ [][NextPair]_vars

----------------------------------------------------------------------------
(* Properties *)

CtorOps == {"new", "with_system"}
ConstructorRan == calls # <<>>
Called(call) == \E i \in DOMAIN calls : calls[i] = call
CredentialsResolved == Called("getgid")
RequestedId == unwrap_or(config.sandbox_id, 0)
BothOverrides == is_some(config.as_uid) /\ is_some(config.as_gid)
NoOverride == ~is_some(config.as_uid) /\ ~is_some(config.as_gid)
ExactlyOneOverride == is_some(config.as_uid) # is_some(config.as_gid)
ConstructionFailedWith(e) ==
  /\ result.op \in CtorOps
  /\ result.tag = "Err"
  /\ result.err = e
  /\ ~sandbox.present

(* C1: whenever the System reports a non-root effective uid, construction
   fails with NotRoot and returns no Sandbox, whatever the configuration,
   the environment, the real uid and the effective and real gid are. *)
C1_NotRootWhenEuidNotRoot ==
  (ConstructorRan /\ system.euid # 0) => ConstructionFailedWith(NotRoot)

C1_Witness ==
  /\ result.op = "new"
  /\ system.euid # 0
  /\ system.uid = 0 /\ system.egid = 0 /\ system.gid = 0
  /\ result.err = NotRoot

(* C2: in a construction with a root effective uid, setegid is called
   exactly when the effective gid is not 0; when that call fails with an
   OS error, construction fails with the Permission error "cannot switch to
   root group" carrying that error, and returns no Sandbox. *)
C2_SetegidIffEgidNotRoot ==
  (ConstructorRan /\ system.euid = 0) =>
    /\ Called("setegid") <=> (system.egid # 0)
    /\ (system.egid # 0 /\ system.setegid_errno # "") =>
         ConstructionFailedWith(
           [kind |-> "Permission", message |-> "cannot switch to root group: {}",
            cause |-> system.setegid_errno, upper |-> 0])

C2_Witness ==
  /\ result.op = "new"
  /\ Called("setegid")
  /\ result.err.kind = "Permission"
  /\ result.err.cause = "EINVAL"

(* The checks a constructor makes before it compares the id with
   num_sandboxes have passed. *)
ReachedRangeCheck ==
  /\ result.op \in CtorOps
  /\ system.euid = 0
  /\ ~(system.egid # 0 /\ system.setegid_errno # "")
  /\ (result.op = "with_system") => (CredentialsResolved /\ Called("umask"))

(* C3: for every id >= num_sandboxes construction fails with the
   Configuration error naming the range 0..num_sandboxes-1, and every
   Sandbox returned has id < num_sandboxes (an absent id counts as 0). *)
C3_OutOfRangeIdIsConfigError ==
  /\ (ReachedRangeCheck /\ RequestedId >= environment.num_sandboxes) =>
       ConstructionFailedWith(
         [kind |-> "Config", message |-> "sandbox id out of range (allowed: 0-{})",
          cause |-> "", upper |-> environment.num_sandboxes - 1])
  /\ sandbox.present =>
       (sandbox.id = RequestedId /\ sandbox.id < environment.num_sandboxes)

(* What does hold of the range check: the statement of C3 for every
   environment with at least one sandbox. *)
RangeCheckWithSomeSandbox ==
  (environment.num_sandboxes >= 1) => C3_OutOfRangeIdIsConfigError

(* C4: when exactly one of as_uid and as_gid is set, credential resolution
   fails with the Configuration error "must be used either both or none",
   whatever the real uid is. *)
C4_LoneOverrideIsConfigError ==
  (CredentialsResolved /\ ExactlyOneOverride) => ConstructionFailedWith(ConfigAs)

C4_Witness ==
  /\ CredentialsResolved
  /\ is_some(config.as_gid) /\ ~is_some(config.as_uid)
  /\ system.uid # 0
  /\ result.err = ConfigAs

(* C5: when both overrides are set and the real uid is not root, credential
   resolution fails with the Permission error, although the effective uid
   is root. *)
C5_OverrideNeedsRootRealUid ==
  (CredentialsResolved /\ BothOverrides /\ system.uid # 0) =>
    (system.euid = 0 /\ ConstructionFailedWith(PermissionAs))

C5_Witness ==
  /\ CredentialsResolved
  /\ BothOverrides
  /\ system.uid # 0 /\ system.euid = 0
  /\ result.err = PermissionAs

(* C6: the credentials of a returned Sandbox are the overrides verbatim
   when both are present (and then the real uid is 0), and the System's
   real uid and gid when both are absent; no other pair is produced. *)
C6_ResolvedCredentials ==
  sandbox.present =>
    \/ /\ BothOverrides
       /\ system.uid = 0
       /\ sandbox.original_uid = config.as_uid[1]
       /\ sandbox.original_gid = config.as_gid[1]
    \/ /\ NoOverride
       /\ sandbox.original_uid = system.uid
       /\ sandbox.original_gid = system.gid

C6_Witness ==
  /\ sandbox.present
  /\ BothOverrides
  /\ sandbox.original_uid = 2000
  /\ sandbox.original_gid = 2001

(* The number a sequence of decimal digits denotes. *)
RECURSIVE DecimalValue(_)
DecimalValue(digits) ==
  IF digits = <<>> THEN 0
  ELSE 10 * DecimalValue(SubSeq(digits, 1, Len(digits) - 1)) + digits[Len(digits)]

(* C7: every Sandbox returned has directory sandbox_root/<id>, uid
   first_sandbox_uid + id and gid first_sandbox_gid + id, whatever the
   identity overrides are. *)
C7_DerivedIdentity ==
  sandbox.present =>
    /\ Len(sandbox.directory) = Len(environment.sandbox_root) + 1
    /\ SubSeq(sandbox.directory, 1, Len(environment.sandbox_root))
         = environment.sandbox_root
    /\ DecimalValue(sandbox.directory[Len(sandbox.directory)]) = RequestedId
    /\ sandbox.uid = environment.first_sandbox_uid + RequestedId
    /\ sandbox.gid = environment.first_sandbox_gid + RequestedId

(* What does hold of the derived values: the statement of C7 whenever
   neither sum exceeds the u32 range; scenario A is such a case. *)
DerivedIdentityWithoutOverflow ==
  (/\ environment.first_sandbox_uid + RequestedId <= U32Max
   /\ environment.first_sandbox_gid + RequestedId <= U32Max) => C7_DerivedIdentity

ScenarioA ==
  /\ sandbox.present
  /\ environment.num_sandboxes = 10
  /\ environment.first_sandbox_uid = 10000
  /\ environment.first_sandbox_gid = 20000
  /\ sandbox.directory = <<"tmp", "isolate_test", <<5>>>>
  /\ sandbox.uid = 10005
  /\ sandbox.gid = 20005

(* C8: a Sandbox is uninitialized from its construction until an
   initialize call succeeds, and execute and cleanup called in that time
   fail with NotInitialized. *)
C8_FreshSandboxUninitialized ==
  (sandbox.present /\ ~history.ever_initialized) =>
    /\ ~sandbox.initialized
    /\ (result.op \in {"execute", "cleanup"}) =>
         (result.tag = "Err" /\ result.err = NotInitialized)

(* What does hold: the statement of C8 for a Sandbox built by with_system. *)
FreshSandboxUninitializedWithSystem ==
  (sandbox.ctor = "with_system") => C8_FreshSandboxUninitialized

(* C9: initialize on an initialized sandbox fails with AlreadyInitialized
   and changes neither the sandbox nor the process; and at most one
   initialize call succeeds without a successful cleanup in between. *)
C9_InitializeOnce ==
  /\ [][(sandbox.initialized /\ result'.op = "initialize") =>
          /\ result' = Err("initialize", AlreadyInitialized)
          /\ sandbox' = sandbox
          /\ process' = process
          /\ history' = history]_vars
  /\ [](history.inits <= 1)

C9_Witness ==
  /\ history.inits = 1
  /\ sandbox.ctor = "with_system"
  /\ result = Err("initialize", AlreadyInitialized)

(* C10: a successful cleanup leaves the sandbox uninitialized, so that a
   cleanup call following it fails with NotInitialized: no two cleanup
   calls succeed without a successful initialize in between. *)
C10_SecondCleanupFails ==
  /\ history.cleanups <= 1
  /\ (result = Ok("cleanup")) => ~sandbox.initialized
  /\ (history.cleanups = 1 /\ result.op = "cleanup" /\ result.tag = "Err") =>
       result.err = NotInitialized

C10_Witness ==
  /\ history.cleanups = 1
  /\ result = Err("cleanup", NotInitialized)

(* Scenario B of the design document: root effective uid, the switch to
   the root group possible, the id in range, credentials that resolve, and
   a non-root real uid under restrict_initialization. *)
RestrictedCaller ==
  /\ environment.restrict_initialization
  /\ system.uid # 0

ScenarioB ==
  /\ RestrictedCaller
  /\ ReachedRangeCheck
  /\ RequestedId < environment.num_sandboxes
  /\ credentials(config, system).ok
  /\ ~sandbox_uid(environment, RequestedId).overflow
  /\ ~sandbox_gid(environment, RequestedId).overflow

(* C11 as stated: with restrict_initialization = true and a non-root real
   uid, construction succeeds (given a root effective uid, a valid id and
   valid credentials) and the later initialize fails with the Permission
   error "must be root to initialize". *)
C11_RestrictedConstructionSucceeds ==
  ScenarioB =>
    /\ (result.op \in CtorOps) => (result.tag = "Ok" /\ sandbox.present)
    /\ (result.op = "initialize") => (result = Err("initialize", PermissionRestricted))

(* What the two constructors do in scenario B.  Sandbox::new raises the
   Permission error itself, after the effective-uid, group and id checks,
   and returns no Sandbox; Sandbox::with_system makes no such check, so
   its Sandbox is returned and it is initialize that fails. *)
RestrictedNewFailsAtConstruction ==
  RestrictedCaller =>
    /\ ~(sandbox.present /\ sandbox.ctor = "new")
    /\ (/\ result.op = "new"
        /\ ReachedRangeCheck
        /\ RequestedId < environment.num_sandboxes)
         => ConstructionFailedWith(PermissionRestricted)

RestrictedWithSystemFailsAtInitialize ==
  ScenarioB =>
    /\ (result.op = "with_system") => (result.tag = "Ok" /\ sandbox.present)
    /\ (result.op = "initialize") => (result = Err("initialize", PermissionRestricted))

(* C12: with restrict_initialization = true, a root effective uid, an id in
   range and a non-root real uid, Sandbox::new itself fails with the
   Permission error "you must be root to initialize the sandbox"; with
   restrict_initialization = false the real uid alone never causes this
   error. *)
C12_NewChecksRestrictedInitialization ==
  /\ (/\ result.op = "new"
      /\ ReachedRangeCheck
      /\ RequestedId < environment.num_sandboxes)
       => (ConstructionFailedWith(PermissionRestricted) <=> RestrictedCaller)
  /\ (result.op \in CtorOps /\ ~environment.restrict_initialization)
       => (result.err # PermissionRestricted)

C12_Witness ==
  /\ result.op = "new"
  /\ RestrictedCaller
  /\ BothOverrides
  /\ system.euid = 0
  /\ result.err = PermissionRestricted

(* An initialize call that got past its guard and the
   restricted-initialization check. *)
InitializeReachedWalk ==
  /\ result.op = "initialize"
  /\ result.err \notin {AlreadyInitialized, PermissionRestricted}

BadAncestor(node) ==
  \/ ~node.is_dir
  \/ has_bit(node.mode, GroupWrite)
  \/ has_bit(node.mode, OtherWrite)

SomeBadAncestor == \E i \in DOMAIN fs.ancestors : BadAncestor(fs.ancestors[i])

(* C13: if any ancestor of the sandbox-root path is not a directory or has
   its group-write or other-write bit set, initialize fails with the
   Permission error "writable only by root" and does not create the
   per-sandbox directory; initialize gets past this step only when every
   ancestor is a directory with both bits clear. *)
C13_AncestorsWritableOnlyByRoot ==
  /\ [](InitializeReachedWalk =>
          /\ SomeBadAncestor => (result = Err("initialize", PermissionAncestors))
          /\ (result.tag = "Ok") => ~SomeBadAncestor)
  /\ [][(result'.op = "initialize" /\ result'.err = PermissionAncestors)
          => (/\ fs'.directory = fs.directory
              /\ fs'.box = fs.box
              /\ sandbox' = sandbox)]_vars

C13_Witness ==
  /\ result = Err("initialize", PermissionAncestors)
  /\ ~has_bit(fs.ancestors[1].mode, GroupWrite)
  /\ fs.ancestors[1].is_dir
  /\ has_bit(fs.ancestors[2].mode, OtherWrite)
  /\ ~has_bit(fs.ancestors[2].mode, GroupWrite)
  /\ ~fs.directory.exists

(* C14: after a successful initialize the sandbox root exists, the
   per-sandbox directory <root>/<id> exists freshly recreated (nothing an
   earlier run left in it remains) with mode 0o700, and it holds a box
   subdirectory with mode 0o700 owned by the resolved uid and gid. *)
C14_InitializeCreatesDirectories ==
  (result = Ok("initialize")) =>
    /\ fs.root.exists /\ fs.root.is_dir
    /\ sandbox.directory = join(environment.sandbox_root, to_string(sandbox.id))
    /\ fs.directory.exists /\ fs.directory.is_dir
    /\ fs.directory.mode = 448
    /\ fs.directory.entries = {"box"}
    /\ fs.box.exists /\ fs.box.is_dir
    /\ fs.box.mode = 448
    /\ fs.box.entries = {}
    /\ fs.box.uid = credentials(config, system).uid
    /\ fs.box.gid = credentials(config, system).gid

C14_Witness ==
  /\ result = Ok("initialize")
  /\ history.replaced
  /\ BothOverrides
  /\ fs.box.uid = 2000 /\ fs.box.gid = 2001
  /\ fs.directory.entries = {"box"}

MountConstructed == mount_call.ctor # ""

OtherOptions ==
  {"allow_devices", "filesystem", "no_exec", "no_recursive", "optional",
   "temporary"}

(* C15: constructing a mount whose options have temporary = true together
   with any present outside-path always fails with the Mount error
   "temporary directory cannot have an outside path", whatever the other
   options are; no Mount value is produced. *)
C15_TemporaryWithOutsidePathFails ==
  (/\ MountConstructed
   /\ mount_call.options.temporary
   /\ is_some(mount_call.outside_path))
    => (mount_call.result = ValueErr(TemporaryWithOutsidePath, NoMount))

C15_Witness ==
  /\ mount_call.ctor = "new"
  /\ mount_call.options.temporary
  /\ mount_call.options.read_write
  /\ mount_call.options.allow_devices
  /\ is_some(mount_call.outside_path)
  /\ mount_call.result.tag = "Err"
  /\ mount_call.result.err.kind = "Mount"

(* C16: every Mount returned by Mount::new and by the device, filesystem,
   optional, read_only, read_write and temporary constructors has
   temporary => read_write and temporary => no outside_path; when
   temporary is false the caller's read_write is kept; every other option
   and both paths are stored exactly as supplied. *)
C16_MountNormalized ==
  (MountConstructed /\ mount_call.result.tag = "Ok") =>
    LET m == mount_call.result.value
    IN  /\ m.options.temporary => m.options.read_write
        /\ m.options.temporary => ~is_some(m.outside_path)
        /\ ~mount_call.options.temporary
             => (m.options.read_write = mount_call.options.read_write)
        /\ \A o \in OtherOptions : m.options[o] = mount_call.options[o]
        /\ m.inside_path = mount_call.inside_path
        /\ m.outside_path = mount_call.outside_path

C16_Witness ==
  /\ mount_call.ctor = "new"
  /\ mount_call.options.temporary
  /\ ~mount_call.options.read_write
  /\ mount_call.options.no_exec
  /\ mount_call.result.tag = "Ok"
  /\ mount_call.result.value.options.read_write
  /\ mount_call.result.value.options.no_exec

(* Resolution as the design document and the comment on default_mounts
   describe it: a declaration whose inside-path is already in the plan
   takes that entry's place, any other goes to the end. *)
PositionOf(plan, inside_path) ==
  { i \in DOMAIN plan : plan[i].inside_path = inside_path }

Declare(plan, m) ==
  IF PositionOf(plan, m.inside_path) = {}
    THEN Append(plan, m)
    ELSE LET i == CHOOSE i \in PositionOf(plan, m.inside_path) :
                    \A j \in PositionOf(plan, m.inside_path) : i <= j
         IN  [plan EXCEPT ![i] = m]

RECURSIVE Resolve(_, _)
Resolve(plan, declared) ==
  IF declared = <<>> THEN plan
  ELSE Resolve(Declare(plan, Head(declared)), Tail(declared))

DistinctInsidePaths(plan) ==
  \A i, j \in DOMAIN plan :
    (plan[i].inside_path = plan[j].inside_path) => (i = j)

(* C17: mount resolution is order-stable under replacement: a later
   declaration with the inside-path of an earlier entry of the plan
   replaces that entry in place, the plan does not grow and every entry
   keeps its position; so no two entries of a plan share an inside-path. *)
C17_ReplacementInPlace ==
  (context.present /\ DistinctInsidePaths(declarations.base)) =>
    /\ context.mounts = Resolve(declarations.base, declarations.declared)
    /\ DistinctInsidePaths(context.mounts)

(* What the source does instead: every declaration goes to the end. *)
DeclarationsAppended ==
  context.present => (context.mounts = declarations.base \o declarations.declared)

ExpectedDefaultMounts ==
  { [inside_path |-> <<"box">>, outside_path |-> Some(<<".", "box">>),
     options |-> [DefaultMountOptions EXCEPT !.read_write = TRUE]],
    [inside_path |-> <<"bin">>, outside_path |-> None,
     options |-> DefaultMountOptions],
    [inside_path |-> <<"lib">>, outside_path |-> None,
     options |-> DefaultMountOptions],
    [inside_path |-> <<"usr">>, outside_path |-> None,
     options |-> DefaultMountOptions],
    [inside_path |-> <<"lib64">>, outside_path |-> None,
     options |-> [DefaultMountOptions EXCEPT !.optional = TRUE]],
    [inside_path |-> <<"dev">>, outside_path |-> None,
     options |-> [DefaultMountOptions EXCEPT !.allow_devices = TRUE]],
    [inside_path |-> <<"proc">>, outside_path |-> None,
     options |-> [DefaultMountOptions EXCEPT !.filesystem = Some("proc")]],
    [inside_path |-> <<"tmp">>, outside_path |-> None,
     options |-> [DefaultMountOptions EXCEPT !.temporary = TRUE,
                                             !.read_write = TRUE]] }

DefaultPlan(ctx) ==
  /\ ctx.present /\ ~ctx.panicked
  /\ Len(ctx.mounts) = 8
  /\ DistinctInsidePaths(ctx.mounts)
  /\ { ctx.mounts[i] : i \in DOMAIN ctx.mounts } = ExpectedDefaultMounts

(* C18: the default mount plan of a new ExecutionContext has exactly eight
   entries with pairwise distinct inside-paths: box read-write bound to
   the working directory, bin, lib and usr read-only, lib64 read-only and
   optional, dev with devices allowed, proc a filesystem mount of type
   proc, tmp temporary and read-write; building it never fails. *)
C18_DefaultMountPlan ==
  [][(~context.present /\ context' # context) => DefaultPlan(context')]_vars

C18_Witness ==
  /\ context.present
  /\ declarations.declared = <<>>
  /\ declarations.base = context.mounts
  /\ Len(context.mounts) = 8
  /\ context.mounts[7].inside_path = <<"tmp">>

StatusCodes == { <<"R", "E">>, <<"S", "G">>, <<"T", "O">>, <<"X", "X">> }

(* C19: for each of the four statuses, parsing its displayed two-letter
   code (RE, SG, TO, XX) yields the same status; the four codes are
   pairwise distinct; parsing any other string yields RuntimeError. *)
C19_StatusRoundTrip ==
  /\ (status_io.status # "") =>
       /\ status_io.code \in StatusCodes
       /\ (status_io.status = RuntimeError) <=> (status_io.code = <<"R", "E">>)
       /\ (status_io.status = SignalError) <=> (status_io.code = <<"S", "G">>)
       /\ (status_io.status = Timeout) <=> (status_io.code = <<"T", "O">>)
       /\ (status_io.status = InternalError) <=> (status_io.code = <<"X", "X">>)
  /\ (status_io.status # "" /\ status_io.parsed # ""
        /\ status_io.input = status_io.code)
       => (status_io.parsed = status_io.status)
  /\ (status_io.parsed # "" /\ status_io.input \notin StatusCodes)
       => (status_io.parsed = RuntimeError)

C19_Witness ==
  /\ status_io.status = Timeout
  /\ status_io.input = status_io.code
  /\ status_io.parsed = Timeout

Executed == result = Ok("execute") /\ execution.present

(* The claim's condition for a forced termination, on the inputs of the
   call: the wall-time limit exceeded, or the CPU-time limit exceeded by
   more than the extra time. *)
WallTimeOver ==
  is_some(context.wall_time_limit_ms)
    /\ program.wall_ms > context.wall_time_limit_ms[1]

CpuTimeOverPastGrace ==
  is_some(context.time_limit_ms)
    /\ program.cpu_ms > context.time_limit_ms[1]
    /\ program.cpu_ms - context.time_limit_ms[1]
         > unwrap_or(context.extra_time_ms, 0)

(* C20: execute on an initialized sandbox classifies the outcome: the
   child is forcibly terminated and the status is Timeout if wall-time is
   exceeded, or if CPU-time is exceeded and the extra-time grace window
   has also elapsed, never before; SignalError with the signal number if
   the child dies on a signal; RuntimeError with the exit code if it exits
   non-zero; a Timeout result is always marked terminated by the
   sandbox. *)
C20_ExecuteClassification ==
  Executed =>
    /\ (WallTimeOver \/ CpuTimeOverPastGrace)
         => (execution.status = Timeout /\ execution.terminated_by_sandbox)
    /\ (execution.status = Timeout)
         => (/\ execution.terminated_by_sandbox
             /\ (WallTimeOver \/ CpuTimeOverPastGrace))
    /\ (~execution.terminated_by_sandbox /\ program.signal # 0)
         => (/\ execution.status = SignalError
             /\ execution.termination_signal = program.signal)
    /\ (~execution.terminated_by_sandbox /\ program.signal = 0
          /\ program.exit_code # 0)
         => (/\ execution.status = RuntimeError
             /\ execution.exit_code = program.exit_code)

C20_Witness ==
  /\ Executed
  /\ context.time_limit_ms = Some(1000)
  /\ context.extra_time_ms = Some(500)
  /\ context.wall_time_limit_ms = Some(5000)
  /\ program.cpu_ms = 1200
  /\ program.signal = 11
  /\ execution.status = SignalError

(* Scenario D of the design document. *)
ScenarioD ==
  (Executed /\ context = ExecutionContext_new) =>
    /\ (program.wall_ms = 6000) => (execution.status = Timeout)
    /\ (program.wall_ms < 5000 /\ program.cpu_ms < 1000 /\ program.exit_code = 7)
         => (execution.status = RuntimeError /\ execution.exit_code = 7)
    /\ (program.wall_ms < 5000 /\ program.cpu_ms < 1000 /\ program.signal = 11)
         => (execution.status = SignalError /\ execution.termination_signal = 11)

(* C21: all validation failures of construction are returned before any
   irreversible action: whenever construction returns an error (NotRoot,
   id out of range, restricted initialization, or a credential error),
   neither the effective-gid switch nor the umask change has been applied,
   so the effective gid and the file-creation mask of the process are
   what they were before the call. *)
C21_FailedConstructionLeavesProcess ==
  (result.op \in CtorOps /\ result.tag = "Err") =>
    /\ process.egid = system.egid
    /\ process.umask_calls = 0
    /\ ~Called("setegid")
    /\ ~Called("umask")

(* What does hold: a constructor that fails on the effective uid or on the
   switch of the group itself has changed nothing. *)
EarlyFailureLeavesProcess ==
  (/\ result.op \in CtorOps
   /\ result.tag = "Err"
   /\ result.err \in {NotRoot, PermissionSetegid(system.setegid_errno)})
    => (process.egid = system.egid /\ process.umask_calls = 0)

BothStderrRedirections(ctx) == is_some(ctx.stderr) /\ ctx.stderr_to_stdout

(* C22: stderr_to_stdout is mutually exclusive with an explicit stderr
   path: no ExecutionContext reachable through new() and any sequence of
   builder calls (stderr, stderr_to_stdout, ...) that is accepted for
   execution has both stderr = Some(path) and stderr_to_stdout = true. *)
C22_StderrRedirectionsExclusive ==
  context.present => ~BothStderrRedirections(context)

(* C22 on the side of execute: a context an execute call has accepted
   does not have both. *)
ExecutedContextExclusive ==
  (result = Ok("execute")) => ~BothStderrRedirections(context)

----------------------------------------------------------------------------
(* The file-creation mask *)

UmaskCalls == Cardinality({ i \in DOMAIN calls : calls[i] = "umask" })

(* C23: every successful construction sets the process's file-creation
   mask exactly once, to 0o022, whatever the configuration, the environment
   and the credential overrides are. *)
C23_UmaskSetOnce ==
  (result.op \in CtorOps /\ result.tag = "Ok") =>
    /\ process.umask = SandboxUmask
    /\ process.umask_calls = 1
    /\ UmaskCalls = 1
    /\ calls[Len(calls)] = "umask"

(* A sandbox constructed with both overrides, a non-default id and a
   restricted environment, the mask set. *)
C23_Witness ==
  /\ result.op \in CtorOps /\ result.tag = "Ok"
  /\ BothOverrides
  /\ config.sandbox_id = Some(5)
  /\ environment.restrict_initialization
  /\ process.umask = SandboxUmask /\ process.umask_calls = 1

----------------------------------------------------------------------------
(* Repeated execution *)

ExecuteReturned == result.op = "execute" /\ result.tag = "Ok"

(* C24: execute is repeatable.  After any execute call on an initialized
   sandbox has returned, the sandbox is still initialized, with its
   directory, its credentials and the mount plan of the context unchanged,
   so an execute that follows does not fail with NotInitialized; the only
   operation that takes a sandbox out of the initialized state is
   cleanup. *)
C24_ExecuteRepeatable ==
  [][ /\ (sandbox.initialized /\ result'.op = "execute") =>
           /\ result'.tag = "Ok"
           /\ sandbox' = sandbox
           /\ sandbox'.initialized
           /\ fs' = fs
           /\ context'.mounts = context.mounts
           /\ execute(sandbox', context', program').result
                # Err("execute", NotInitialized)
      /\ (sandbox.initialized /\ ~sandbox'.initialized) =>
           result' = Ok("cleanup") ]_vars

(* The same as a property of states: a returned execute leaves an
   initialized sandbox. *)
ExecutedSandboxInitialized == ExecuteReturned => sandbox.initialized

(* An execute has returned on a sandbox built by with_system and
   initialized, and on one built by new. *)
C24_Witness ==
  /\ ExecuteReturned
  /\ sandbox.ctor = "with_system"
  /\ history.inits = 1
  /\ sandbox.initialized

ExecutedAfterNew ==
  ExecuteReturned /\ sandbox.ctor = "new" /\ history.inits = 0

----------------------------------------------------------------------------
(* The place of the umask call in construction *)

CallPositions(call) == { i \in DOMAIN calls : calls[i] = call }

ReadsRealIds == CallPositions("getuid") \cup CallPositions("getgid")

(* C25 as stated: during construction the umask is applied immediately
   after the effective-gid fix-up and before credential resolution: the
   umask call precedes the reading of the real uid and gid and the override
   check. *)
C25_UmaskBeforeCredentials ==
  (result.op \in CtorOps /\ Called("umask")) =>
    /\ calls[Len(GidCalls(system)) + 1] = "umask"
    /\ \A u \in CallPositions("umask") : \A r \in ReadsRealIds : u < r

(* C25, amended: during construction the umask is applied after the
   effective-gid fix-up and after credential resolution, as the last call a
   constructor makes on the System: the real uid and gid are read and the
   override check made before it, and a constructor that fails on its
   credentials has not made the call. *)
C25_UmaskAfterCredentials ==
  /\ (result.op \in CtorOps /\ Called("umask")) =>
        /\ calls[Len(calls)] = "umask"
        /\ CredentialsResolved
        /\ \A u \in CallPositions("umask") : \A r \in ReadsRealIds : r < u
  /\ (result.op \in CtorOps /\ result.tag = "Err"
        /\ result.err \in {PermissionAs, ConfigAs}) => ~Called("umask")

(* A constructor that switched the group, resolved both overrides and set
   the mask. *)
C25_Witness ==
  /\ result.op \in CtorOps /\ result.tag = "Ok"
  /\ Called("setegid") /\ BothOverrides
  /\ calls[Len(calls)] = "umask"

(* A constructor that failed on its credentials. *)
CredentialFailureReached ==
  /\ result.op \in CtorOps /\ result.tag = "Err"
  /\ result.err \in {PermissionAs, ConfigAs}
  /\ ~Called("umask")

----------------------------------------------------------------------------
(* The order of the mount plan *)

MountDeclared ==
  /\ declarations'.base = declarations.base
  /\ Len(declarations'.declared) = Len(declarations.declared) + 1

MountsReplaced ==
  /\ declarations'.declared = <<>>
  /\ declarations' # declarations

(* C26: the mount plan is the default mounts followed by the user's
   declarations in the order they were declared.  mount(m) on a context
   places m after every entry the plan already has and leaves the earlier
   entries and their order unchanged; mounts(list) discards the defaults,
   so the plan is exactly list. *)
C26_MountPlanOrder ==
  [][ (context.present /\ context'.present) =>
        /\ MountDeclared =>
             /\ Len(context'.mounts) = Len(context.mounts) + 1
             /\ SubSeq(context'.mounts, 1, Len(context.mounts)) = context.mounts
             /\ context'.mounts[Len(context'.mounts)]
                  = declarations'.declared[Len(declarations'.declared)]
             /\ context'.mounts = declarations'.base \o declarations'.declared
        /\ MountsReplaced => context'.mounts = declarations'.base ]_vars

(* The defaults followed by two declarations, the second with the
   inside-path of the first. *)
C26_Witness ==
  /\ context.present
  /\ declarations.base = ExecutionContext_new.mounts
  /\ Len(declarations.declared) = 2
  /\ declarations.declared[1].inside_path = declarations.declared[2].inside_path
  /\ declarations.declared[1] # declarations.declared[2]
  /\ Len(context.mounts) = 10

(* A list given to mounts, and a declaration after it. *)
ReplacedThenDeclared ==
  /\ context.present
  /\ Len(declarations.base) = 2
  /\ Len(declarations.declared) = 1
  /\ Len(context.mounts) = 3

----------------------------------------------------------------------------
(* The order of the checks of Sandbox::new *)

SetegidWouldFail == system.egid # 0 /\ system.setegid_errno # ""
IdOutOfRange == RequestedId >= environment.num_sandboxes
RestrictedAndNotRoot == environment.restrict_initialization /\ system.uid # 0
OutOfRangeReported ==
  /\ result.tag = "Err"
  /\ result.err.kind = "Config"
  /\ result.err.message = "sandbox id out of range (allowed: 0-{})"
  /\ ~sandbox.present

(* C27: Sandbox::new reports the first failing check in a fixed order:
   NotRoot for a non-root effective uid, then the Permission error of a
   failed setegid, then the Configuration error of an id out of range, then
   the Permission error of restricted initialization, then the error of
   credential resolution; a later check never masks an earlier one. *)
C27_FirstFailingCheck ==
  (result.op = "new") =>
    IF system.euid # 0 THEN ConstructionFailedWith(NotRoot)
    ELSE IF SetegidWouldFail
      THEN ConstructionFailedWith(PermissionSetegid(system.setegid_errno))
    ELSE IF IdOutOfRange THEN OutOfRangeReported
    ELSE IF RestrictedAndNotRoot THEN ConstructionFailedWith(PermissionRestricted)
    ELSE IF ExactlyOneOverride THEN ConstructionFailedWith(ConfigAs)
    ELSE IF BothOverrides /\ system.uid # 0
      THEN ConstructionFailedWith(PermissionAs)
    ELSE result.tag # "Err"

(* What does hold: the order of C27 in every environment with at least one
   sandbox, and in every build that does not check for overflow. *)
FirstFailingCheckWithSomeSandbox ==
  (environment.num_sandboxes >= 1) => C27_FirstFailingCheck

NewNeverMasksEarlierCheck ==
  (result.op = "new" /\ result.tag # "Panic") => C27_FirstFailingCheck

(* Every check but the first one fails, and new reports the second. *)
AllLaterChecksFail ==
  /\ result.op = "new"
  /\ system.euid = 0
  /\ SetegidWouldFail /\ IdOutOfRange /\ RestrictedAndNotRoot /\ ExactlyOneOverride
  /\ result.err = PermissionSetegid(system.setegid_errno)

(* new stops at the range check of an environment with no sandbox. *)
RangeCheckAborted ==
  result = Panic("new") /\ environment.num_sandboxes = 0

----------------------------------------------------------------------------
(* Sandboxes of one Environment *)

TwoSandboxes == sandbox.present /\ peer.present /\ sandbox.id # peer.id

(* C28: sandboxes are partitioned by id.  For two sandboxes constructed
   from the same environment with distinct ids (both below num_sandboxes),
   the directories, the uids and the gids are pairwise different. *)
C28_PartitionedById ==
  TwoSandboxes =>
    /\ sandbox.id < environment.num_sandboxes
    /\ peer.id < environment.num_sandboxes
    /\ sandbox.directory # peer.directory
    /\ sandbox.uid # peer.uid
    /\ sandbox.gid # peer.gid

(* Two sandboxes whose uids lie on either side of the largest u32. *)
C28_Witness ==
  /\ TwoSandboxes
  /\ environment.first_sandbox_uid = U32Max - 4
  /\ sandbox.id = 4
  /\ peer.id = 5
  /\ peer.uid < sandbox.uid

(* Two sandboxes of one id are the same sandbox. *)
SameIdSameSandbox ==
  /\ sandbox.present /\ peer.present /\ sandbox.id = peer.id
  /\ sandbox.directory = peer.directory
  /\ sandbox.uid = peer.uid

----------------------------------------------------------------------------
(* The sums that give a sandbox its uid and gid *)

AcceptedId ==
  /\ result.op \in CtorOps
  /\ result.tag # "Err"
  /\ RequestedId < environment.num_sandboxes

(* C29: for every environment and every accepted id, first_sandbox_uid + id
   and first_sandbox_gid + id are computed without exceeding the u32 range:
   the sums never wrap and never abort the construction. *)
C29_SumsWithinU32 ==
  AcceptedId =>
    /\ result.tag = "Ok"
    /\ sandbox.present
    /\ environment.first_sandbox_uid + RequestedId <= U32Max
    /\ environment.first_sandbox_gid + RequestedId <= U32Max
    /\ sandbox.uid = environment.first_sandbox_uid + RequestedId
    /\ sandbox.gid = environment.first_sandbox_gid + RequestedId

(* The two outcomes of a sum past the largest u32: a Sandbox with the
   wrapped uid, and a construction that aborts. *)
SumWrapped ==
  /\ sandbox.present
  /\ environment.first_sandbox_uid + sandbox.id > U32Max
  /\ sandbox.uid = environment.first_sandbox_uid + sandbox.id - Modulus
  /\ sandbox.uid = 0

SumAborted ==
  /\ AcceptedId
  /\ result.tag = "Panic"
  /\ environment.first_sandbox_gid + RequestedId > U32Max

(* What does hold: the sums are exact whenever the environment leaves room
   for num_sandboxes ids above both bases. *)
SumsExactWithRoom ==
  (/\ environment.first_sandbox_uid + environment.num_sandboxes <= U32Max + 1
   /\ environment.first_sandbox_gid + environment.num_sandboxes <= U32Max + 1)
    => C29_SumsWithinU32

----------------------------------------------------------------------------
(* The upper end of the range the Configuration error names *)

(* C30: the id range check returns its Configuration error for every value
   of num_sandboxes, 0 included: computing num_sandboxes - 1 for the message
   never underflows and never aborts the construction. *)
C30_RangeErrorForEveryNumSandboxes ==
  (ReachedRangeCheck /\ IdOutOfRange) =>
    /\ result.tag = "Err"
    /\ result.err.kind = "Config"
    /\ environment.num_sandboxes - 1 >= 0
    /\ result.err.upper = environment.num_sandboxes - 1

(* The two outcomes with num_sandboxes = 0: an error that names the range
   up to the largest u32, and a construction that aborts (RangeCheckAborted
   for new). *)
RangeUpperWrapped ==
  /\ result.op \in CtorOps
  /\ environment.num_sandboxes = 0
  /\ result.tag = "Err"
  /\ result.err.kind = "Config"
  /\ result.err.upper = U32Max

RangeCheckAbortedWithSystem ==
  result = Panic("with_system") /\ environment.num_sandboxes = 0

(* What does hold: with at least one sandbox the error is returned and
   names num_sandboxes - 1. *)
RangeErrorWithSomeSandbox ==
  (environment.num_sandboxes >= 1) => C30_RangeErrorForEveryNumSandboxes

(* The error returned for an id past ten sandboxes. *)
RangeErrorReturned ==
  /\ result.op \in CtorOps
  /\ environment.num_sandboxes = 10
  /\ RequestedId = 10
  /\ result.err.kind = "Config" /\ result.err.upper = 9

====
